---- MODULE Spec2Model ----
(***************************************************************************)
(* Model of the vision-to-navigation pipeline of Hhackathon-app:           *)
(*   - NavigationStateStore (apps/api/api/services/navigation.py)          *)
(*   - NavigationSupervisor (apps/api/api/workers/vision_supervisor.py)    *)
(*   - NavigationSupervisor._decide, as a function of its arguments        *)
(*   - POST /navigation/decision (apps/api/api/routers/navigation.py)      *)
(* Each part has its own specification over the shared variable list; the  *)
(* variables of the other parts stay at their initial values.              *)
(***************************************************************************)
EXTENDS Integers, Sequences, FiniteSets, TLC

VARIABLES
    \* ---- NavigationStateStore ----
    ttl,            \* self._ttl (seconds)
    history_limit,  \* self._history_limit
    sequence,       \* self._sequence
    lock,           \* self._lock: the thread holding it, or NoThread
    decisions,      \* self._decisions: room -> DecisionEntry or None
    history,        \* self._history: room -> list of DecisionEntry
    destinations,   \* self._destinations: room -> DestinationEntry or None
    now,            \* the wall clock read by datetime.now(timezone.utc)
    tl,             \* per calling thread: position and locals of its call
    ret,            \* the last call that returned: operation, arguments, result
    log,            \* history variable: every entry recorded, in commit order
    dest_written,   \* history variable: per room, the destination last set
                    \* and not cleared since, and the last committed change
    held,           \* the last value get_history handed to a caller
    args,           \* the constructor call in progress, if any
    \* ---- NavigationSupervisor ----
    main_pc,        \* position of run() / _run_livekit / _run_camera
    queue_set,      \* self._frame_queue and self._loop are not None
    frame_queue,    \* contents of self._frame_queue (asyncio.Queue(maxsize=1))
    closed_event,   \* closed_event.is_set()
    track_tasks,    \* self._track_tasks: sid -> task id, NoTask when absent
    tasks,          \* every _consume_video_track task created, by id
    cons,           \* the _process_frames task (self._frame_task)
    ready,          \* the event loop's FIFO of callbacks ready to run
    gathered,       \* the tasks the suspended main coroutine is waiting for
    subscribed,     \* transport side: publications currently subscribed
    nsubs,          \* track_subscribed notifications delivered so far
    produced,       \* frames delivered by the video streams so far
    blocked,        \* producers suspended inside _enqueue_frame
    clock,          \* time.time(), in ticks of a quarter second
    last_publish,   \* self._last_publish, same unit
    gate,           \* result of the last _ready_to_publish() call
    posted,         \* outcome of the last httpx.post of _publish
    \* ---- NavigationSupervisor._decide ----
    shape,          \* the argument shape: <<h, w>>
    detections,     \* the argument detections: mask (or None) and xyxy
    decision,       \* the NavigationCommand returned, None before the call
    evaluated,      \* history variable: every evaluation of _decide so far
    \* ---- NavigationSupervisor.run ----
    cfg,            \* self.cfg as run() reads it, and whether rtc was imported
    started,        \* history variable: the acquisition modes started so far
    \* ---- routers/navigation.py ----
    vision_api_token,  \* settings.vision_api_token
    response        \* what submit_decision last answered, and the
                    \* submissions _authorize has let through

storeVars == <<ttl, history_limit, sequence, lock, decisions, history,
               destinations, now, tl, ret, log, dest_written, held,
               args>>

liveVars == <<main_pc, queue_set, frame_queue, closed_event, track_tasks,
              tasks, cons, ready, gathered, subscribed, nsubs, produced,
              blocked, clock, last_publish, gate, posted>>

decideVars == <<shape, detections, decision, evaluated>>

runVars == <<cfg, started>>

apiVars == <<vision_api_token, response>>

vars == <<storeVars, liveVars, decideVars, runVars, apiVars>>

----------------------------------------------------------------------------
(* Bounds of the model *)

MaxSeq == 2      \* record_decision calls per behaviour
MaxTime == 2     \* the clock stops advancing here

Rooms == {"R1", "R2"}
Threads == {"t1", "t2"}
StoreCommands == {"STOP"}
TtlArgs == {0, 1, 2}        \* ttl_seconds handed to the constructor
LimitArgs == {-1, 1, 2}     \* history_limit handed to the constructor
Points == {"p1", "p2"}      \* (latitude, longitude) payloads

None == "none"
NoThread == "nobody"

\* "absent" (Python's None) for a DecisionEntry / DestinationEntry slot
NoEntry == [sequence |-> 0, room |-> None, command |-> None,
            created_at |-> 0, expires_at |-> 0]
NoDest == [room |-> None, point |-> None, updated_at |-> 0]

\* Python truthiness of an optional string: None and "" are false.
Truthy(v) == v \notin {None, ""}

\* `a and b`: the first operand when it is false, else the second.
AndValue(a, b) == IF Truthy(a) THEN b ELSE a

Max(a, b) == IF a >= b THEN a ELSE b
Min(a, b) == IF a <= b THEN a ELSE b

----------------------------------------------------------------------------
(* NavigationStateStore *)

\* __init__: self._ttl = max(ttl_seconds, 1)
ClampTtlUnchecked(ttl_seconds) == ttl_seconds
ClampTtl(ttl_seconds) == Max(ttl_seconds, 1)

\* __init__: self._history_limit = max(history_limit, 1)
ClampLimit(limit) == Max(limit, 1)

\* DecisionEntry; message, confidence and source are payload the store never
\* reads and are left out.
DecisionEntry(seq, room, command, created_at, expires_at) ==
    [sequence |-> seq, room |-> room, command |-> command,
     created_at |-> created_at, expires_at |-> expires_at]

\* DestinationEntry; updated_at defaults to the construction time.
DestinationEntry(room, point, updated_at) ==
    [room |-> room, point |-> point, updated_at |-> updated_at]

Idle == [pc |-> "idle", room |-> None, command |-> None, now |-> 0,
         dest |-> NoDest]

\* What a call handed back: the entry (or NoEntry), the history snapshot, the
\* destination (or NoDest), whichever the operation returns.
Returned(op, room, at, entry, snapshot, dest) ==
    [op |-> op, room |-> room, now |-> at, entry |-> entry,
     snapshot |-> snapshot, dest |-> dest]

\* `with self._lock:` can be entered when nobody holds the lock.
AcquirableNoLock(l) == TRUE
Acquirable(l) == l = NoThread

\* self._sequence += 1
NextSequenceStuck(s) == s
NextSequence(s) == s + 1

\* expires_at = now + timedelta(seconds=self._ttl)
ExpiresAtNoTtl(t, seconds) == t
ExpiresAt(t, seconds) == t + seconds

\* self._decisions[room] = entry
StoreLatestKeepFirst(dec, room, entry) ==
    IF dec[room] = NoEntry THEN [dec EXCEPT ![room] = entry] ELSE dec
StoreLatestEveryRoom(dec, room, entry) == [r \in DOMAIN dec |-> entry]
StoreLatest(dec, room, entry) == [dec EXCEPT ![room] = entry]

\* history.append(entry); if len(history) > self._history_limit: history.pop(0)
AppendTrimmedDropNewest(h, entry, limit) ==
    LET a == Append(h, entry)
    IN  IF Len(a) > limit THEN SubSeq(a, 1, Len(a) - 1) ELSE a
AppendTrimmedPruneExpired(h, entry, limit) ==
    LET kept == SelectSeq(h, LAMBDA e : ~(e.expires_at < entry.created_at))
        a == Append(kept, entry)
    IN  IF Len(a) > limit THEN Tail(a) ELSE a
AppendTrimmed(h, entry, limit) ==
    LET a == Append(h, entry)
    IN  IF Len(a) > limit THEN Tail(a) ELSE a

\* get_latest_decision: entry.expires_at < now
ExpiredInclusive(entry, t) == entry.expires_at <= t
Expired(entry, t) == entry.expires_at < t

\* self._destinations[room] = entry
StoredDestinationKeepFirst(dests, room, entry) ==
    IF dests[room] = NoDest THEN [dests EXCEPT ![room] = entry] ELSE dests
StoredDestination(dests, room, entry) == [dests EXCEPT ![room] = entry]

\* self._destinations.pop(room, None)
ClearedEverywhere(dests, room) == [r \in DOMAIN dests |-> NoDest]
ClearedDestination(dests, room) == [dests EXCEPT ![room] = NoDest]

\* tuple(self._history.get(room, ())): a new immutable sequence holding the
\* entries of the list at the time of the call.  `live` marks a value that
\* is the store's own list object instead of a copy.
SnapshotLive(h, room) == [live |-> TRUE, room |-> room, items |-> <<>>]
Snapshot(h, room) == [live |-> FALSE, room |-> room, items |-> h[room]]

\* Nothing handed out yet.
NoSnapshot == [value |-> [live |-> FALSE, room |-> None, items |-> <<>>],
               seen |-> <<>>, calls |-> 0]

\* The destination history of a room: the entry last set and not cleared
\* since, and what the last committed change was ("set", "clear" after a
\* set, "reclear" for a clear that found nothing).
NotWritten == [entry |-> NoDest, last |-> None]
AfterSet(entry) == [entry |-> entry, last |-> "set"]
AfterClear(w) ==
    [entry |-> NoDest, last |-> IF w.last = "set" THEN "clear" ELSE "reclear"]

\* The constructor keeps only the clamped values, not its arguments.
NoArgs == [pending |-> FALSE, ttl_seconds |-> 0, history_limit |-> 0]

\* State after NavigationStateStore.__init__(ttl_seconds, history_limit).
StoreInitWith(ttl_seconds, limit) ==
    /\ ttl = ClampTtl(ttl_seconds)
    /\ history_limit = ClampLimit(limit)
    /\ sequence = 0
    /\ lock = NoThread
    /\ decisions = [r \in Rooms |-> NoEntry]
    /\ history = [r \in Rooms |-> <<>>]
    /\ destinations = [r \in Rooms |-> NoDest]
    /\ now = 0
    /\ tl = [t \in Threads |-> Idle]
    /\ ret = Returned("init", None, 0, NoEntry, <<>>, NoDest)
    /\ log = <<>>
    /\ dest_written = [r \in Rooms |-> NotWritten]
    /\ held = NoSnapshot
    /\ args = NoArgs

StoreInit == \E a \in TtlArgs, b \in LimitArgs : StoreInitWith(a, b)

MaxArg == 5      \* constructor arguments range over -MaxArg..MaxArg
ArgRange == (0 - MaxArg)..MaxArg

\* A call NavigationStateStore(ttl_seconds=a, history_limit=b) about to run:
\* the fields of the new object are not assigned yet.
ConstructInit ==
    /\ args \in [pending : {TRUE}, ttl_seconds : ArgRange,
                  history_limit : ArgRange]
    /\ ttl = 0
    /\ history_limit = 0
    /\ sequence = 0
    /\ lock = NoThread
    /\ decisions = [r \in Rooms |-> NoEntry]
    /\ history = [r \in Rooms |-> <<>>]
    /\ destinations = [r \in Rooms |-> NoDest]
    /\ now = 0
    /\ tl = [t \in Threads |-> Idle]
    /\ ret = Returned("init", None, 0, NoEntry, <<>>, NoDest)
    /\ log = <<>>
    /\ dest_written = [r \in Rooms |-> NotWritten]
    /\ held = NoSnapshot

\* __init__, lines 36-43.
Construct ==
    /\ args.pending
    /\ ttl' = ClampTtl(args.ttl_seconds)
    /\ history_limit' = ClampLimit(args.history_limit)
    /\ args' = [args EXCEPT !.pending = FALSE]
    /\ UNCHANGED <<runVars, apiVars>>
    /\ UNCHANGED <<decideVars, liveVars, sequence, lock, decisions, history,
                   destinations, now, tl, ret, log, dest_written, held>>

ConstructNext == Construct

Tick ==
    /\ now < MaxTime
    /\ now' = now + 1
    /\ UNCHANGED <<runVars, apiVars>>
    /\ UNCHANGED <<decideVars, liveVars, args, dest_written, held,
                   ttl, history_limit, sequence, lock, decisions, history,
                   destinations, tl, ret, log>>

\* The calls of record_decision that have read the clock and wait for the
\* lock.
Entering == {u \in Threads : tl[u].pc = "rec"}

\* record_decision, lines 54-55: thread t has read the clock.
RecordBegun(t, room, command) ==
    [tl EXCEPT ![t] = [Idle EXCEPT !.pc = "rec", !.room = room,
                                   !.command = command, !.now = now]]

\* record_decision, lines 54-55: the clock is read before the lock is taken.
RecordBegin(t, room, command) ==
    /\ tl[t].pc = "idle"
    /\ sequence + Cardinality(Entering) < MaxSeq
    /\ tl' = RecordBegun(t, room, command)
    /\ UNCHANGED <<runVars, apiVars>>
    /\ UNCHANGED <<decideVars, liveVars, args, dest_written, held,
                   ttl, history_limit, sequence, lock, decisions, history,
                   destinations, now, ret, log>>

\* record_decision, lines 56-57: take the lock, bump the counter.
RecordLock(t) ==
    /\ tl[t].pc = "rec"
    /\ Acquirable(lock)
    /\ lock' = t
    /\ sequence' = NextSequence(sequence)
    /\ tl' = [tl EXCEPT ![t].pc = "rec_in"]
    /\ UNCHANGED <<runVars, apiVars>>
    /\ UNCHANGED <<decideVars, liveVars, args, dest_written, held,
                   ttl, history_limit, decisions, history, destinations, now,
                   ret, log>>

\* record_decision, lines 58-73: build the entry from self._sequence, store it
\* as latest, append to the ring, trim, release the lock, return the entry.
RecordStore(t) ==
    /\ tl[t].pc = "rec_in"
    /\ LET room == tl[t].room
           entry == DecisionEntry(sequence, room, tl[t].command, tl[t].now,
                                  ExpiresAt(tl[t].now, ttl))
       IN  /\ decisions' = StoreLatest(decisions, room, entry)
           /\ history' = [history EXCEPT
                            ![room] = AppendTrimmed(@, entry, history_limit)]
           /\ log' = Append(log, entry)
           /\ ret' = Returned("record", room, tl[t].now, entry, <<>>,
                               NoDest)
    /\ lock' = NoThread
    /\ tl' = [tl EXCEPT ![t] = Idle]
    /\ UNCHANGED <<runVars, apiVars>>
    /\ UNCHANGED <<decideVars, liveVars, args, dest_written, held,
                   ttl, history_limit, sequence, destinations, now>>

\* get_latest_decision, line 76: the clock is read before the lock is taken.
GetBegin(t, room) ==
    /\ tl[t].pc = "idle"
    /\ tl' = [tl EXCEPT ![t] = [Idle EXCEPT !.pc = "get", !.room = room,
                                            !.now = now]]
    /\ UNCHANGED <<runVars, apiVars>>
    /\ UNCHANGED <<decideVars, liveVars, args, dest_written, held,
                   ttl, history_limit, sequence, lock, decisions, history,
                   destinations, now, ret, log>>

\* get_latest_decision, lines 77-84, one critical section.
GetLocked(t) ==
    /\ tl[t].pc = "get"
    /\ Acquirable(lock)
    /\ LET room == tl[t].room
           entry == decisions[room]
           result == IF entry = NoEntry THEN NoEntry
                     ELSE IF Expired(entry, tl[t].now) THEN NoEntry
                     ELSE entry
       IN  /\ decisions' = IF entry # NoEntry /\ Expired(entry, tl[t].now)
                           THEN [decisions EXCEPT ![room] = NoEntry]
                           ELSE decisions
           /\ ret' = Returned("get", room, tl[t].now, result, <<>>, NoDest)
    /\ tl' = [tl EXCEPT ![t] = Idle]
    /\ UNCHANGED <<runVars, apiVars>>
    /\ UNCHANGED <<decideVars, liveVars, args, dest_written, held,
                   ttl, history_limit, sequence, lock, history, destinations,
                   now, log>>

\* get_history, lines 87-88: a tuple copy taken under the lock; the caller
\* reads the result and drops it.
GetHistory(t, room) ==
    /\ tl[t].pc = "idle"
    /\ Acquirable(lock)
    /\ ret' = Returned("history", room, now, NoEntry, history[room],
                        NoDest)
    /\ UNCHANGED <<runVars, apiVars>>
    /\ UNCHANGED <<decideVars, liveVars, args, dest_written, held,
                   ttl, history_limit, sequence, lock, decisions, history,
                   destinations, now, tl, log>>

\* get_history, lines 87-88, by a caller that keeps the value it got.
KeepHistory(t, room) ==
    /\ tl[t].pc = "idle"
    /\ Acquirable(lock)
    /\ ret' = Returned("history", room, now, NoEntry, history[room],
                        NoDest)
    /\ held' = [value |-> Snapshot(history, room), seen |-> history[room],
                calls |-> 1]
    /\ UNCHANGED <<runVars, apiVars>>
    /\ UNCHANGED <<decideVars, liveVars, args, dest_written,
                   ttl, history_limit, sequence, lock, decisions, history,
                   destinations, now, tl, log>>

\* set_destination, line 99: the entry is built before the lock is taken.
SetDestinationBegin(t, room, point) ==
    /\ tl[t].pc = "idle"
    /\ tl' = [tl EXCEPT ![t] = [Idle EXCEPT
                  !.pc = "setdest", !.room = room,
                  !.dest = DestinationEntry(room, point, now)]]
    /\ UNCHANGED <<runVars, apiVars>>
    /\ UNCHANGED <<decideVars, liveVars, args, dest_written, held,
                   ttl, history_limit, sequence, lock, decisions, history,
                   destinations, now, ret, log>>

\* set_destination, lines 100-102.
SetDestinationLocked(t) ==
    /\ tl[t].pc = "setdest"
    /\ Acquirable(lock)
    /\ destinations' = StoredDestination(destinations, tl[t].room, tl[t].dest)
    /\ dest_written' = [dest_written EXCEPT ![tl[t].room] = AfterSet(tl[t].dest)]
    /\ ret' = Returned("set_destination", tl[t].room, now, NoEntry, <<>>,
                        tl[t].dest)
    /\ tl' = [tl EXCEPT ![t] = Idle]
    /\ UNCHANGED <<runVars, apiVars>>
    /\ UNCHANGED <<decideVars, liveVars, args, held,
                   ttl, history_limit, sequence, lock, decisions, history,
                   now, log>>

\* get_destination, lines 105-106.
GetDestination(t, room) ==
    /\ tl[t].pc = "idle"
    /\ Acquirable(lock)
    /\ ret' = Returned("get_destination", room, now, NoEntry, <<>>,
                        destinations[room])
    /\ UNCHANGED <<runVars, apiVars>>
    /\ UNCHANGED <<decideVars, liveVars, args, dest_written, held,
                   ttl, history_limit, sequence, lock, decisions, history,
                   destinations, now, tl, log>>

\* clear_destination, lines 109-110: pop(room, None).
ClearDestination(t, room) ==
    /\ tl[t].pc = "idle"
    /\ Acquirable(lock)
    /\ destinations' = ClearedDestination(destinations, room)
    /\ dest_written' = [dest_written EXCEPT ![room] = AfterClear(@)]
    /\ ret' = Returned("clear_destination", room, now, NoEntry, <<>>,
                        NoDest)
    /\ UNCHANGED <<runVars, apiVars>>
    /\ UNCHANGED <<decideVars, liveVars, args, held,
                   ttl, history_limit, sequence, lock, decisions, history,
                   now, tl, log>>

----------------------------------------------------------------------------
(* routers/navigation.py: POST /navigation/decision *)

\* HTTPException(status_code=status.HTTP_401_UNAUTHORIZED), line 29.
Unauthorized == "HTTP_401_UNAUTHORIZED"

\* The last answer of submit_decision ("recording" while record_decision
\* runs, whose entry becomes the answer), the Authorization header it came
\* with, and the headers and the number of the submissions that _authorize
\* has let through.
NoResponse ==
    [status |-> None, authorization |-> None, passed |-> {}, calls |-> 0]

\* f"Bearer {settings.vision_api_token}"
Bearer(token) == "Bearer " \o token

\* _authorize, lines 27-29: whether the request goes on to the store.
AuthorizedAnyHeader(token, authorization) ==
    ~(Truthy(token) /\ authorization = None)
Authorized(token, authorization) ==
    ~(Truthy(token) /\ authorization # Bearer(token))

\* settings.vision_api_token and the Authorization headers of the requests.
Tokens == {None, "", "tok"}
Headers == {None, "tok", "Bearer tok", "Bearer other", "Bearer "}

\* The application with some token setting, before the first request.
ApiInit ==
    /\ vision_api_token \in Tokens
    /\ response = NoResponse

\* submit_decision, lines 33-46: _authorize, then record_decision up to its
\* clock reading (navigation.py lines 54-55); a rejected request raises
\* before the store is called.
SubmitDecision(t, room, command, authorization) ==
    /\ tl[t].pc = "idle"
    /\ IF Authorized(vision_api_token, authorization)
       THEN /\ sequence + Cardinality(Entering) < MaxSeq
            /\ tl' = RecordBegun(t, room, command)
            /\ response' = [status |-> "recording",
                            authorization |-> authorization,
                            passed |-> response.passed \cup {authorization},
                            calls |-> response.calls + 1]
       ELSE /\ tl' = tl
            /\ response' = [response EXCEPT !.status = Unauthorized,
                                            !.authorization = authorization]
    /\ UNCHANGED <<runVars, vision_api_token>>
    /\ UNCHANGED <<decideVars, liveVars, args, dest_written, held,
                   ttl, history_limit, sequence, lock, decisions, history,
                   destinations, now, ret, log>>

\* Requests to POST /navigation/decision from concurrent clients.
ApiNext ==
    \/ Tick
    \/ \E t \in Threads, r \in Rooms, c \in StoreCommands, a \in Headers :
           SubmitDecision(t, r, c, a)
    \/ \E t \in Threads : RecordLock(t)
    \/ \E t \in Threads : RecordStore(t)

\* No request in progress; no token configured (Settings default, config.py
\* line 23).
ApiIdle ==
    /\ vision_api_token = None
    /\ response = NoResponse


MaxSubs == 3      \* track_subscribed notifications per behaviour
MaxFrames == 3    \* frames delivered by the video streams per behaviour
MaxElapsed == 2   \* clock ticks per behaviour

Sids == {"s1", "s2"}
NoTask == 0

\* 0.5 s (line 377) in clock ticks of a quarter second.
Debounce == 2

\* time.time() is far from 0.0, the initial self._last_publish.
ClockStart == Debounce

\* A _consume_video_track task: "new" (created, first step queued), "waiting"
\* (suspended in the async for), "woken" (a wakeup is queued), "done".
NewTask(sid) ==
    [sid |-> sid, st |-> "new", cancel |-> FALSE, wake |-> "none", frame |-> 0,
     how |-> "none"]

\* What the last call of _ready_to_publish saw and answered: its result, the
\* clock it read, the result of the call before it, and the clock of the most
\* recent earlier call that answered True (<<>> if none, else <<clock>>).
NoGate == [res |-> "none", at |-> 0, prev |-> "none", earlier |-> <<>>]
Asked(g, res, t) ==
    [res |-> res, at |-> t, prev |-> g.res,
     earlier |-> IF g.res = "true" THEN <<g.at>> ELSE g.earlier]

NoCons == [pc |-> "none", sched |-> FALSE, cancel |-> FALSE, frame |-> 0]

\* Callbacks in the loop's ready queue.
StartCb(sid) == [kind |-> "start", sid |-> sid, task |-> NoTask]
TaskCb(id) == [kind |-> "task", sid |-> None, task |-> id]
MainCb == [kind |-> "main", sid |-> None, task |-> NoTask]
ConsCb == [kind |-> "consumer", sid |-> None, task |-> NoTask]

TaskIds == 1..Len(tasks)

\* Ids in ascending order (dict insertion order of the registry).
RECURSIVE SortedIds(_)
SortedIds(S) ==
    IF S = {} THEN <<>>
    ELSE LET m == CHOOSE x \in S : \A y \in S : x <= y
         IN  <<m>> \o SortedIds(S \ {m})

RECURSIVE CallbacksOf(_)
CallbacksOf(ids) ==
    IF ids = <<>> THEN <<>> ELSE <<TaskCb(Head(ids))>> \o CallbacksOf(Tail(ids))

\* Task.cancel(): a task suspended on a future is woken with CancelledError;
\* one whose step is already queued gets the error at that step.
CancelRec(t) ==
    IF t.st = "done" THEN t
    ELSE IF t.st = "waiting" THEN [t EXCEPT !.st = "woken", !.cancel = TRUE]
    ELSE [t EXCEPT !.cancel = TRUE]

\* The tasks of ids cancelled, the others untouched.
CancelAll(ts, ids) ==
    [i \in 1..Len(ts) |-> IF i \in ids THEN CancelRec(ts[i]) ELSE ts[i]]

\* The wakeups Task.cancel() queues for the tasks of ids.
CancelWakeups(ts, ids) ==
    CallbacksOf(SortedIds({i \in ids : ts[i].st = "waiting"}))

\* self._frame_task.cancel()
CancelCons(c) ==
    IF c.pc \in {"done", "none", "crashed"} THEN c
    ELSE [c EXCEPT !.cancel = TRUE, !.sched = TRUE]

CancelConsWakeup(c) ==
    IF c.pc \notin {"done", "none", "crashed"} /\ ~c.sched THEN <<ConsCb>>
    ELSE <<>>

\* self._track_tasks.pop(sid, None)
PopAll(reg, sid) == [s \in DOMAIN reg |-> NoTask]
Pop(reg, sid) == [reg EXCEPT ![sid] = NoTask]

\* asyncio.Queue(maxsize=1)
QueueMaxSize == 1
Full(q) == Len(q) >= QueueMaxSize

\* _enqueue_frame, lines 285-296: the queue afterwards, and whether the caller
\* had to wait.  get_nowait and put_nowait never suspend.
EnqueueFrameAwaitPut(isset, q, f) ==
    IF ~isset THEN [queue |-> q, blocks |-> FALSE]
    ELSE IF Full(q) THEN [queue |-> q, blocks |-> TRUE]
    ELSE [queue |-> Append(q, f), blocks |-> FALSE]
EnqueueFrameDropNewest(isset, q, f) ==
    IF ~isset \/ Full(q) THEN [queue |-> q, blocks |-> FALSE]
    ELSE [queue |-> Append(q, f), blocks |-> FALSE]
EnqueueFrame(isset, q, f) ==
    IF ~isset THEN [queue |-> q, blocks |-> FALSE]
    ELSE LET q1 == IF Full(q) THEN (IF q = <<>> THEN q ELSE Tail(q)) ELSE q
             q2 == IF Full(q1) THEN q1 ELSE Append(q1, f)
         IN  [queue |-> q2, blocks |-> FALSE]

\* What the one httpx.post of _publish can come to.
Outcomes == {"ok", "network_error", "timeout", "non_2xx"}
Failures == Outcomes \ {"ok"}

\* _publish, lines 392-401: whether the call raises.  A transport error or
\* timeout is an exception caught by `except Exception: pass`; a non-2xx
\* reply is a response object that nothing inspects.
PublishRaisesOnTimeout(outcome) == outcome = "timeout"
PublishRaises(outcome) == FALSE

\* _ready_to_publish, lines 375-380
ReadyToPublishNoDebounce(t, last) == TRUE
ReadyToPublish(t, last) == ~(t - last < Debounce)

\* VisionConfig.livekit_ready, lines 86-87.
LivekitReady(c) ==
    Truthy(AndValue(AndValue(c.livekit_url, c.livekit_api_key),
                    c.livekit_api_secret))

\* run(), line 103: use_livekit and livekit_ready() and rtc is not None.
UseLivekitFlagOnly(c) == c.use_livekit /\ c.rtc
UseLivekit(c) == c.use_livekit /\ LivekitReady(c) /\ c.rtc

\* The configurations run() can meet: the flag, each credential absent,
\* empty or set, and whether the livekit package could be imported.
Credentials == {None, "", "set"}
Configs ==
    [use_livekit : BOOLEAN, livekit_url : Credentials,
     livekit_api_key : Credentials, livekit_api_secret : Credentials,
     rtc : BOOLEAN]

\* A configuration for the live subscription, and the same with
\* VISION_USE_LIVEKIT=0.
LiveConfig ==
    [use_livekit |-> TRUE, livekit_url |-> "set", livekit_api_key |-> "set",
     livekit_api_secret |-> "set", rtc |-> TRUE]
CameraConfig == [LiveConfig EXCEPT !.use_livekit = FALSE]

\* State after NavigationSupervisor.__init__ (lines 91-100) with cfg = c.
SupervisorInitWith(c) ==
    /\ cfg = c
    /\ started = {}
    /\ main_pc = "init"
    /\ queue_set = FALSE
    /\ frame_queue = <<>>
    /\ closed_event = FALSE
    /\ track_tasks = [s \in Sids |-> NoTask]
    /\ tasks = <<>>
    /\ cons = NoCons
    /\ ready = <<>>
    /\ gathered = {}
    /\ subscribed = {}
    /\ nsubs = 0
    /\ produced = 0
    /\ blocked = {}
    /\ clock = ClockStart
    /\ last_publish = 0
    /\ gate = NoGate
    /\ posted = None

SupervisorInit == SupervisorInitWith(LiveConfig)

\* The transport delivers room events from the moment the handlers are
\* registered (line 162) until room.disconnect() has returned (line 204).
Delivering ==
    main_pc \in {"connecting", "connected", "waiting", "closing", "gather",
                 "gathered", "await_frame", "frame_done", "disconnecting"}

ClockTick ==
    /\ main_pc \notin {"init", "closed"}
    /\ clock < ClockStart + MaxElapsed
    /\ clock' = clock + 1
    /\ UNCHANGED <<runVars, apiVars>>
    /\ UNCHANGED <<decideVars, storeVars, posted,
                   main_pc, queue_set, frame_queue, closed_event, track_tasks,
                   tasks, cons, ready, gathered, subscribed, nsubs, produced,
                   blocked, last_publish, gate>>

\* run(), lines 103-106, into _run_livekit, lines 141-189: the checks of
\* lines 142-144, then queue, loop, handlers and await connect().
RunLivekitStart ==
    /\ main_pc = "init"
    /\ UseLivekit(cfg)
    /\ started' = started \cup {"livekit"}
    /\ IF cfg.rtc /\ LivekitReady(cfg)
       THEN /\ main_pc' = "connecting"
            /\ queue_set' = TRUE
            /\ frame_queue' = <<>>
            /\ last_publish' = 0
            /\ closed_event' = FALSE
       ELSE /\ main_pc' = "config_error"
            /\ UNCHANGED <<queue_set, frame_queue, last_publish,
                           closed_event>>
    /\ UNCHANGED <<cfg, apiVars>>
    /\ UNCHANGED <<decideVars, storeVars, posted,
                   track_tasks, tasks, cons, ready, gathered, subscribed,
                   nsubs, produced, blocked, clock, gate>>

\* room.connect() returns: the main coroutine is made ready.
ConnectDone ==
    /\ main_pc = "connecting"
    /\ main_pc' = "connected"
    /\ ready' = Append(ready, MainCb)
    /\ UNCHANGED <<runVars, apiVars>>
    /\ UNCHANGED <<decideVars, storeVars, posted,
                   queue_set, frame_queue, closed_event, track_tasks, tasks,
                   cons, gathered, subscribed, nsubs, produced, blocked, clock,
                   last_publish, gate>>

\* _on_track -> _attach_track, lines 163-167 and 208-220.
Subscribe(sid) ==
    /\ Delivering
    /\ sid \notin subscribed
    /\ nsubs < MaxSubs
    /\ subscribed' = subscribed \cup {sid}
    /\ nsubs' = nsubs + 1
    /\ ready' = IF queue_set THEN Append(ready, StartCb(sid)) ELSE ready
    /\ UNCHANGED <<runVars, apiVars>>
    /\ UNCHANGED <<decideVars, storeVars, posted,
                   main_pc, queue_set, frame_queue, closed_event, track_tasks,
                   tasks, cons, gathered, produced, blocked, clock,
                   last_publish, gate>>

\* _start_consumer, lines 214-218, run by the loop.
StartConsumer ==
    /\ ready # <<>>
    /\ Head(ready).kind = "start"
    /\ LET sid == Head(ready).sid
           id == Len(tasks) + 1
       IN  IF track_tasks[sid] # NoTask
           THEN /\ ready' = Tail(ready)
                /\ UNCHANGED <<tasks, track_tasks>>
           ELSE /\ tasks' = Append(tasks, NewTask(sid))
                /\ track_tasks' = [track_tasks EXCEPT ![sid] = id]
                /\ ready' = Append(Tail(ready), TaskCb(id))
    /\ UNCHANGED <<runVars, apiVars>>
    /\ UNCHANGED <<decideVars, storeVars, posted,
                   main_pc, queue_set, frame_queue, closed_event, cons,
                   gathered, subscribed, nsubs, produced, blocked, clock,
                   last_publish, gate>>

\* _on_unsubscribed -> _detach_track, lines 170-173 and 222-225.
Unsubscribe(sid) ==
    /\ Delivering
    /\ sid \in subscribed
    /\ subscribed' = subscribed \ {sid}
    /\ LET id == track_tasks[sid]
       IN  /\ track_tasks' = Pop(track_tasks, sid)
           /\ tasks' = IF id = NoTask THEN tasks ELSE CancelAll(tasks, {id})
           /\ ready' = IF id = NoTask THEN ready
                       ELSE ready \o CancelWakeups(tasks, {id})
    /\ UNCHANGED <<runVars, apiVars>>
    /\ UNCHANGED <<decideVars, storeVars, posted,
                   main_pc, queue_set, frame_queue, closed_event, cons,
                   gathered, nsubs, produced, blocked, clock, last_publish,
                   gate>>

\* _on_disconnected, lines 181-183: closed_event.set() wakes the main coroutine.
Disconnected ==
    /\ main_pc = "waiting"
    /\ closed_event' = TRUE
    /\ main_pc' = "closing"
    /\ ready' = Append(ready, MainCb)
    /\ UNCHANGED <<runVars, apiVars>>
    /\ UNCHANGED <<decideVars, storeVars, posted,
                   queue_set, frame_queue, track_tasks, tasks, cons, gathered,
                   subscribed, nsubs, produced, blocked, clock, last_publish,
                   gate>>

\* The video stream of a waiting task delivers its next event: a frame, a
\* frame that cannot be converted, an error, or the end of the stream.
StreamEvent(id, kind) ==
    /\ main_pc \notin {"init", "closed"}
    /\ id \in TaskIds
    /\ tasks[id].st = "waiting"
    /\ kind = "frame" => produced < MaxFrames
    /\ produced' = IF kind = "frame" THEN produced + 1 ELSE produced
    /\ tasks' = [tasks EXCEPT ![id] =
                    [@ EXCEPT !.st = "woken", !.wake = kind,
                              !.frame = IF kind = "frame" THEN produced + 1
                                        ELSE 0]]
    /\ ready' = Append(ready, TaskCb(id))
    /\ UNCHANGED <<runVars, apiVars>>
    /\ UNCHANGED <<decideVars, storeVars, posted,
                   main_pc, queue_set, frame_queue, closed_event, track_tasks,
                   cons, gathered, subscribed, nsubs, blocked, clock,
                   last_publish, gate>>

\* One step of a _consume_video_track task, lines 237-255: its first step
\* (up to the first await of the async for), or its wakeup with the next
\* stream event or with CancelledError.  The finally clause runs only if the
\* coroutine had started.
TaskStep ==
    /\ ready # <<>>
    /\ Head(ready).kind = "task"
    /\ LET id == Head(ready).task
           t == tasks[id]
           ends == t.cancel \/ (t.st = "woken" /\ t.wake \in {"error", "end"})
           delivers == ~t.cancel /\ t.st = "woken" /\ t.wake = "frame"
           enq == EnqueueFrame(queue_set, frame_queue, t.frame)
           t1 == IF ends
                 THEN [t EXCEPT !.st = "done", !.wake = "none", !.frame = 0,
                                !.how = IF ~t.cancel THEN t.wake
                                        ELSE IF t.st = "new" THEN "unstarted"
                                        ELSE "cancelled"]
                 ELSE [t EXCEPT !.st = "waiting", !.wake = "none", !.frame = 0]
           ts1 == [tasks EXCEPT ![id] = t1]
           gatherDone == /\ main_pc = "gather"
                         /\ \A g \in gathered : ts1[g].st = "done"
           wakesCons == /\ delivers /\ queue_set /\ ~enq.blocks
                        /\ cons.pc = "get" /\ ~cons.sched
       IN  /\ tasks' = ts1
           /\ track_tasks' = IF ends /\ t.st # "new"
                             THEN Pop(track_tasks, t.sid) ELSE track_tasks
           /\ frame_queue' = IF delivers THEN enq.queue ELSE frame_queue
           /\ blocked' = IF delivers /\ enq.blocks THEN blocked \cup {id}
                         ELSE blocked
           /\ cons' = IF wakesCons THEN [cons EXCEPT !.sched = TRUE] ELSE cons
           /\ main_pc' = IF gatherDone THEN "gathered" ELSE main_pc
           /\ ready' = Tail(ready)
                       \o (IF wakesCons THEN <<ConsCb>> ELSE <<>>)
                       \o (IF gatherDone THEN <<MainCb>> ELSE <<>>)
    /\ UNCHANGED <<runVars, apiVars>>
    /\ UNCHANGED <<decideVars, storeVars, posted,
                   queue_set, closed_event, gathered, subscribed, nsubs,
                   produced, clock, last_publish, gate>>

\* asyncio.to_thread(self._analyze_frame, frame) finishes.
AnalysisDone ==
    /\ cons.pc = "analyze"
    /\ ~cons.sched
    /\ cons' = [cons EXCEPT !.sched = TRUE]
    /\ ready' = Append(ready, ConsCb)
    /\ UNCHANGED <<runVars, apiVars>>
    /\ UNCHANGED <<decideVars, storeVars, posted,
                   main_pc, queue_set, frame_queue, closed_event, track_tasks,
                   tasks, gathered, subscribed, nsubs, produced, blocked,
                   clock, last_publish, gate>>

\* asyncio.to_thread(self._publish, decision) finishes with the outcome of
\* its one httpx.post (lines 392-401).
PublishDone(outcome) ==
    /\ cons.pc = "publish"
    /\ ~cons.sched
    /\ posted' = outcome
    /\ cons' = [cons EXCEPT !.sched = TRUE]
    /\ ready' = Append(ready, ConsCb)
    /\ UNCHANGED <<runVars, apiVars>>
    /\ UNCHANGED <<decideVars, storeVars,
                   main_pc, queue_set, frame_queue, closed_event, track_tasks,
                   tasks, gathered, subscribed, nsubs, produced, blocked,
                   clock, last_publish, gate>>

\* One step of _process_frames, lines 298-311 (cfg.display off): the first
\* step, or the wakeup from queue.get(), from the analysis, from the publish,
\* or with CancelledError.  `await queue.get()` returns without suspending
\* when a frame is pending.
ConsumerStep ==
    /\ ready # <<>>
    /\ Head(ready).kind = "consumer"
    /\ LET taken == [pc |-> "analyze", sched |-> FALSE, cancel |-> FALSE,
                     frame |-> Head(frame_queue)]
           waits == [pc |-> "get", sched |-> FALSE, cancel |-> FALSE,
                     frame |-> 0]
           asks == ~cons.cancel /\ cons.pc = "analyze"
           passes == asks /\ ReadyToPublish(clock, last_publish)
           \* an exception out of to_thread ends _process_frames
           crashes == /\ ~cons.cancel /\ cons.pc = "publish"
                      /\ PublishRaises(posted)
           gets == ~cons.cancel /\ ~passes /\ ~crashes
           mainWakes == cons.cancel /\ main_pc = "await_frame"
       IN  /\ cons' = IF cons.cancel
                      THEN [pc |-> "done", sched |-> FALSE, cancel |-> TRUE,
                            frame |-> 0]
                      ELSE IF crashes
                      THEN [pc |-> "crashed", sched |-> FALSE,
                            cancel |-> FALSE, frame |-> 0]
                      ELSE IF passes
                      THEN [cons EXCEPT !.pc = "publish", !.sched = FALSE]
                      ELSE IF frame_queue # <<>> THEN taken ELSE waits
           /\ frame_queue' = IF gets /\ frame_queue # <<>>
                             THEN Tail(frame_queue) ELSE frame_queue
           /\ last_publish' = IF passes THEN clock ELSE last_publish
           /\ gate' = IF asks
                      THEN Asked(gate, IF passes THEN "true" ELSE "false",
                                 clock)
                      ELSE gate
           /\ main_pc' = IF mainWakes THEN "frame_done" ELSE main_pc
           /\ ready' = Tail(ready) \o (IF mainWakes THEN <<MainCb>> ELSE <<>>)
    /\ UNCHANGED <<runVars, apiVars>>
    /\ UNCHANGED <<decideVars, storeVars, posted,
                   queue_set, closed_event, track_tasks, tasks, gathered,
                   subscribed, nsubs, produced, blocked, clock>>

\* _run_livekit, line 192-194: connect() has returned; start the frame task
\* and wait for closed_event.
MainConnected ==
    /\ ready # <<>>
    /\ Head(ready).kind = "main"
    /\ main_pc = "connected"
    /\ cons' = [pc |-> "new", sched |-> TRUE, cancel |-> FALSE, frame |-> 0]
    /\ ready' = Append(Tail(ready), ConsCb)
    /\ main_pc' = "waiting"
    /\ UNCHANGED <<runVars, apiVars>>
    /\ UNCHANGED <<decideVars, storeVars, posted,
                   queue_set, frame_queue, closed_event, track_tasks, tasks,
                   gathered, subscribed, nsubs, produced, blocked, clock,
                   last_publish, gate>>

Registered == {track_tasks[s] : s \in Sids} \ {NoTask}

\* _run_livekit, lines 195-200 with _cleanup_track_tasks, lines 227-234:
\* closed_event is set.  With no registered task the cleanup returns at once
\* and the frame task is cancelled and awaited; otherwise every registered
\* task is cancelled and gathered.
MainCleanup ==
    /\ ready # <<>>
    /\ Head(ready).kind = "main"
    /\ main_pc = "closing"
    /\ IF Registered = {}
       THEN /\ cons' = CancelCons(cons)
            /\ ready' = Tail(ready) \o CancelConsWakeup(cons)
            /\ main_pc' = "await_frame"
            /\ UNCHANGED <<tasks, gathered>>
       ELSE /\ tasks' = CancelAll(tasks, Registered)
            /\ ready' = Tail(ready) \o CancelWakeups(tasks, Registered)
            /\ gathered' = Registered
            /\ main_pc' = "gather"
            /\ UNCHANGED cons
    /\ UNCHANGED <<runVars, apiVars>>
    /\ UNCHANGED <<decideVars, storeVars, posted,
                   queue_set, frame_queue, closed_event, track_tasks,
                   subscribed, nsubs, produced, blocked, clock, last_publish,
                   gate>>

\* _cleanup_track_tasks, line 235, then _run_livekit, lines 197-200: the gather
\* has returned; clear the registry, cancel and await the frame task.
MainAfterGather ==
    /\ ready # <<>>
    /\ Head(ready).kind = "main"
    /\ main_pc = "gathered"
    /\ track_tasks' = [s \in Sids |-> NoTask]
    /\ gathered' = {}
    /\ cons' = CancelCons(cons)
    /\ ready' = Tail(ready) \o CancelConsWakeup(cons)
    /\ main_pc' = "await_frame"
    /\ UNCHANGED <<runVars, apiVars>>
    /\ UNCHANGED <<decideVars, storeVars, posted,
                   queue_set, frame_queue, closed_event, tasks, subscribed,
                   nsubs, produced, blocked, clock, last_publish, gate>>

\* _run_livekit, lines 201-204: the frame task has ended; await
\* room.disconnect().
MainAfterFrameTask ==
    /\ ready # <<>>
    /\ Head(ready).kind = "main"
    /\ main_pc = "frame_done"
    /\ ready' = Tail(ready)
    /\ main_pc' = "disconnecting"
    /\ UNCHANGED <<runVars, apiVars>>
    /\ UNCHANGED <<decideVars, storeVars, posted,
                   queue_set, frame_queue, closed_event, track_tasks, tasks,
                   cons, gathered, subscribed, nsubs, produced, blocked, clock,
                   last_publish, gate>>

\* room.disconnect() returns (or raises, which is suppressed).
DisconnectDone ==
    /\ main_pc = "disconnecting"
    /\ main_pc' = "resume_final"
    /\ ready' = Append(ready, MainCb)
    /\ UNCHANGED <<runVars, apiVars>>
    /\ UNCHANGED <<decideVars, storeVars, posted,
                   queue_set, frame_queue, closed_event, track_tasks, tasks,
                   cons, gathered, subscribed, nsubs, produced, blocked, clock,
                   last_publish, gate>>

\* _run_livekit, lines 205-206: release the queue and the loop; the coroutine
\* returns and the shutdown is complete.
MainFinish ==
    /\ ready # <<>>
    /\ Head(ready).kind = "main"
    /\ main_pc = "resume_final"
    /\ ready' = Tail(ready)
    /\ queue_set' = FALSE
    /\ frame_queue' = <<>>
    /\ main_pc' = "done"
    /\ UNCHANGED <<runVars, apiVars>>
    /\ UNCHANGED <<decideVars, storeVars, posted,
                   closed_event, track_tasks, tasks, cons, gathered,
                   subscribed, nsubs, produced, blocked, clock, last_publish,
                   gate>>

Alive == {i \in TaskIds : tasks[i].st # "done"}

\* asyncio.run (line 106) after the coroutine returned: cancel every task
\* still pending and keep the loop running until they are done.
RunnerCancelAll ==
    /\ main_pc = "done"
    /\ tasks' = CancelAll(tasks, Alive)
    /\ ready' = ready \o CancelWakeups(tasks, Alive)
    /\ gathered' = Alive
    /\ main_pc' = "teardown"
    /\ UNCHANGED <<runVars, apiVars>>
    /\ UNCHANGED <<decideVars, storeVars, posted,
                   queue_set, frame_queue, closed_event, track_tasks, cons,
                   subscribed, nsubs, produced, blocked, clock, last_publish,
                   gate>>

\* asyncio.run closes the loop; callbacks still queued never run.
LoopClosed ==
    /\ main_pc = "teardown"
    /\ \A g \in gathered : tasks[g].st = "done"
    /\ main_pc' = "closed"
    /\ ready' = <<>>
    /\ gathered' = {}
    /\ UNCHANGED <<runVars, apiVars>>
    /\ UNCHANGED <<decideVars, storeVars, posted,
                   queue_set, frame_queue, closed_event, track_tasks, tasks,
                   cons, subscribed, nsubs, produced, blocked, clock,
                   last_publish, gate>>

----------------------------------------------------------------------------
(* NavigationSupervisor._decide *)

MaxW == 4          \* frame widths 1..MaxW

Heights == {1, 2}
Widths == 1..MaxW
MaskShapes == {<<1, 1>>, <<1, 3>>, <<2, 2>>}

\* Pixels <<y, x>> of an array of h rows and w columns.
Cells(h, w) == (0..(h - 1)) \X (0..(w - 1))

\* Sequences of at most two elements of S.
UpToTwo(S) ==
    {<<>>} \cup {<<a>> : a \in S} \cup {<<a, b>> : a \in S, b \in S}

\* An element of detections.mask: None, or a boolean array given by the set
\* of its True pixels.
NoMask == [none |-> TRUE, on |-> {}]
MaskOf(on) == [none |-> FALSE, on |-> on]
Masks(ms) == {NoMask} \cup {MaskOf(on) : on \in SUBSET Cells(ms[1], ms[2])}

\* Box coordinates are floats, kept here in halves (3 is 1.5).  The detector
\* clips its boxes to the frame.
XHalves(w) == {2 * k : k \in 0..w} \cup {1, 2 * w - 1}
YHalves(h) == {0, 2 * h}
Boxes(h, w) ==
    [x0 : XHalves(w), y0 : YHalves(h), x1 : XHalves(w), y1 : YHalves(h)]

\* sv.Detections: with masks (segmentation) or with boxes only.
MaskDetections(ms, mm) ==
    [has_mask |-> TRUE, mshape |-> ms, mask |-> mm, xyxy |-> <<>>]
BoxDetections(bb) ==
    [has_mask |-> FALSE, mshape |-> <<1, 1>>, mask |-> <<>>, xyxy |-> bb]
\* One mask at a finer grain, so that a band can be occupied in part.
FineShape == <<2, 4>>
DetectionSets(h, w) ==
    {BoxDetections(bb) : bb \in UpToTwo(Boxes(h, w))}
    \cup UNION {{MaskDetections(ms, mm) : mm \in UpToTwo(Masks(ms))} :
                ms \in MaskShapes}
    \cup {MaskDetections(FineShape, <<m>>) : m \in Masks(FineShape)}

Commands == {"MOVE_FORWARD", "TURN_LEFT", "TURN_RIGHT", "STOP"}

\* int(v) of a float given in halves: truncation toward zero.
IntOf(v) == IF v >= 0 THEN v \div 2 ELSE -((-v) \div 2)

\* A slice bound of a[i:j] on an axis of length n.
SliceIdx(i, n) == LET j == IF i < 0 THEN i + n ELSE i IN Max(0, Min(j, n))

\* The indices of a[lo:hi] on an axis of length n (line 353).
SliceInclusive(lo, hi, n) ==
    {i \in 0..(n - 1) : SliceIdx(lo, n) <= i /\ i <= SliceIdx(hi, n)}
Slice(lo, hi, n) ==
    {i \in 0..(n - 1) : SliceIdx(lo, n) <= i /\ i < SliceIdx(hi, n)}

\* Lines 352-353: the pixels mask[y0:y1, x0:x1] of one box.
BoxPixels(b, h, w) ==
    Slice(IntOf(b.y0), IntOf(b.y1), h) \X Slice(IntOf(b.x0), IntOf(b.x1), w)

\* Line 348: cv2.resize(..., (w, h), INTER_NEAREST) of a mask of shape ms;
\* destination pixel (y, x) takes source pixel (y*mh div h, x*mw div w).
Resized(m, ms, h, w) ==
    {p \in Cells(h, w) :
        <<Min((p[1] * ms[1]) \div h, ms[1] - 1),
          Min((p[2] * ms[2]) \div w, ms[2] - 1)>> \in m.on}

\* Lines 343-353: the occupancy map, as the set of its nonzero pixels.
Occupancy(det, h, w) ==
    IF det.has_mask
    THEN UNION {IF det.mask[i].none THEN {}
                ELSE Resized(det.mask[i], det.mshape, h, w) :
                i \in 1..Len(det.mask)}
    ELSE UNION {BoxPixels(det.xyxy[i], h, w) : i \in 1..Len(det.xyxy)}

\* np.mean over the columns cols of the map, as <<sum, size>>; size 0 is nan.
BandMean(occ, h, cols) ==
    <<Cardinality({p \in occ : p[2] \in cols}), h * Cardinality(cols)>>

\* Comparisons of means; every comparison with nan is False.
Greater(m, t) == m[2] > 0 /\ m[1] * t[2] > t[1] * m[2]
LessOrEqual(a, b) == a[2] > 0 /\ b[2] > 0 /\ a[1] * b[2] <= b[1] * a[2]
Less(a, b) == a[2] > 0 /\ b[2] > 0 /\ a[1] * b[2] < b[1] * a[2]

\* cfg.obstacle_threshold (0.4, line 58) and 1.2 times it, as fractions.
ObstacleThresholdAfterPublish ==
    IF gate.res = "true" THEN <<5, 5>> ELSE <<2, 5>>
ObstacleThreshold == <<2, 5>>
SideThresholdTwice == <<24, 25>>
SideThreshold == <<12, 25>>

\* Lines 369-373: the centre is clear; steer away from an occupied side.
SideDecisionMirrored(left, right) ==
    IF Greater(left, SideThreshold) THEN "TURN_LEFT"
    ELSE IF Greater(right, SideThreshold) THEN "TURN_RIGHT"
    ELSE "MOVE_FORWARD"
SideDecision(left, right) ==
    IF Greater(left, SideThreshold) THEN "TURN_RIGHT"
    ELSE IF Greater(right, SideThreshold) THEN "TURN_LEFT"
    ELSE "MOVE_FORWARD"

\* Lines 358-360: the columns of mask[:, : w // 3], mask[:, w // 3 : 2 * w // 3]
\* and mask[:, 2 * w // 3 :].
LeftBand(w) == Slice(0, w \div 3, w)
CenterBand(w) == Slice(w \div 3, (2 * w) \div 3, w)
RightBandLastThird(w) == Slice(w - (w \div 3), w, w)
RightBand(w) == Slice((2 * w) \div 3, w, w)

\* The side rule (lines 369-372) tried before the centre rule (362-367).
DecideSidesFirst(det, shp) ==
    LET h == shp[1]
        w == shp[2]
        occ == Occupancy(det, h, w)
        left == BandMean(occ, h, LeftBand(w))
        center == BandMean(occ, h, CenterBand(w))
        right == BandMean(occ, h, RightBand(w))
    IN  IF occ = {} THEN "MOVE_FORWARD"
        ELSE IF Greater(left, SideThreshold) THEN "TURN_RIGHT"
        ELSE IF Greater(right, SideThreshold) THEN "TURN_LEFT"
        ELSE IF Greater(center, ObstacleThreshold)
        THEN IF Less(left, right) THEN "TURN_LEFT"
             ELSE IF Less(right, left) THEN "TURN_RIGHT"
             ELSE "STOP"
        ELSE "MOVE_FORWARD"

\* _decide, lines 341-373.
Decide(det, shp) ==
    LET h == shp[1]
        w == shp[2]
        occ == Occupancy(det, h, w)
        left == BandMean(occ, h, LeftBand(w))
        center == BandMean(occ, h, CenterBand(w))
        right == BandMean(occ, h, RightBand(w))
    IN  IF occ = {} THEN "MOVE_FORWARD"
        ELSE IF Greater(center, ObstacleThreshold)
        THEN IF Less(left, right) THEN "TURN_LEFT"
             ELSE IF Less(right, left) THEN "TURN_RIGHT"
             ELSE "STOP"
        ELSE SideDecision(left, right)

\* One evaluation: the arguments, the result, and what the supervisor held
\* when it ran (the previous result, the last gate answer, the last publish
\* outcome).
Evaluation(det, shp, command) ==
    [detections |-> det, shape |-> shp, command |-> command,
     previous |-> decision, gate |-> gate.res, posted |-> posted]

\* No call of _decide in progress.
DecideIdle ==
    /\ shape = <<1, 1>>
    /\ detections = BoxDetections(<<>>)
    /\ decision = None
    /\ evaluated = {}

\* A frame shape and a detection set handed to _decide.
DecideInit ==
    /\ shape \in Heights \X Widths
    /\ detections \in DetectionSets(shape[1], shape[2])
    /\ decision = None
    /\ evaluated = {}

\* The call self._decide(detections, frame.shape[:2]) of line 338.
DecideCall ==
    /\ decision = None
    /\ decision' = Decide(detections, shape)
    /\ evaluated' = evaluated \cup {Evaluation(detections, shape,
                                               Decide(detections, shape))}
    /\ UNCHANGED <<runVars, apiVars>>
    /\ UNCHANGED <<storeVars, liveVars, shape, detections>>

DecideNext == DecideCall

----------------------------------------------------------------------------
(* NavigationSupervisor, local camera mode *)

\* What the local source shows: frames of one row and three columns with
\* nothing detected, with an object in the centre third, with one in the
\* left third.
CameraShape == <<1, 3>>
CameraFrames ==
    {BoxDetections(<<>>),
     MaskDetections(<<1, 3>>, <<MaskOf({<<0, 1>>})>>),
     MaskDetections(<<1, 3>>, <<MaskOf({<<0, 0>>})>>)}

\* run -> _run_camera, lines 102-121: the source opens, the gate is reset.
RunCameraStart ==
    /\ main_pc = "init"
    /\ ~UseLivekit(cfg)
    /\ started' = started \cup {"camera"}
    /\ main_pc' = "cam_read"
    /\ last_publish' = 0
    /\ UNCHANGED <<cfg, apiVars>>
    /\ UNCHANGED <<decideVars, storeVars, posted,
                   queue_set, frame_queue, closed_event, track_tasks, tasks,
                   cons, ready, gathered, subscribed, nsubs, produced,
                   blocked, clock, gate>>

\* run -> _run_camera, lines 116-119: the video source cannot be opened and
\* _run_camera raises RuntimeError.
RunCameraUnopened ==
    /\ main_pc = "init"
    /\ ~UseLivekit(cfg)
    /\ started' = started \cup {"camera"}
    /\ main_pc' = "cam_unopened"
    /\ UNCHANGED <<cfg, apiVars>>
    /\ UNCHANGED <<decideVars, storeVars, posted, last_publish,
                   queue_set, frame_queue, closed_event, track_tasks, tasks,
                   cons, ready, gathered, subscribed, nsubs, produced,
                   blocked, clock, gate>>

\* Lines 124-129: cap.read() hands over a frame and _analyze_frame decides
\* on it.  (An unsuccessful read sleeps and reads again: no change.)
CameraAnalyze(frame) ==
    /\ main_pc = "cam_read"
    /\ produced < MaxFrames
    /\ produced' = produced + 1
    /\ shape' = CameraShape
    /\ detections' = frame
    /\ decision' = Decide(frame, CameraShape)
    /\ evaluated' = evaluated \cup {Evaluation(frame, CameraShape,
                                               Decide(frame, CameraShape))}
    /\ main_pc' = "cam_gate"
    /\ UNCHANGED <<runVars, apiVars>>
    /\ UNCHANGED <<storeVars, posted,
                   queue_set, frame_queue, closed_event, track_tasks, tasks,
                   cons, ready, gathered, subscribed, nsubs, blocked, clock,
                   last_publish, gate>>

\* Line 130: if self._ready_to_publish().
CameraGate ==
    /\ main_pc = "cam_gate"
    /\ LET passes == ReadyToPublish(clock, last_publish)
       IN  /\ gate' = Asked(gate, IF passes THEN "true" ELSE "false", clock)
           /\ last_publish' = IF passes THEN clock ELSE last_publish
           /\ main_pc' = IF passes THEN "cam_publish" ELSE "cam_read"
    /\ UNCHANGED <<runVars, apiVars>>
    /\ UNCHANGED <<decideVars, storeVars, posted,
                   queue_set, frame_queue, closed_event, track_tasks, tasks,
                   cons, ready, gathered, subscribed, nsubs, produced,
                   blocked, clock>>

\* Line 131: self._publish(decision); an exception leaves the while loop
\* through the finally clause and out of _run_camera.
CameraPublish(outcome) ==
    /\ main_pc = "cam_publish"
    /\ posted' = outcome
    /\ main_pc' = IF PublishRaises(outcome) THEN "cam_crashed" ELSE "cam_read"
    /\ UNCHANGED <<runVars, apiVars>>
    /\ UNCHANGED <<decideVars, storeVars,
                   queue_set, frame_queue, closed_event, track_tasks, tasks,
                   cons, ready, gathered, subscribed, nsubs, produced,
                   blocked, clock, last_publish, gate>>

CameraNext ==
    \/ RunCameraStart
    \/ RunCameraUnopened
    \/ \E f \in CameraFrames : CameraAnalyze(f)
    \/ CameraGate
    \/ \E o \in Outcomes : CameraPublish(o)

----------------------------------------------------------------------------
(* Specifications *)

\* The loop runs the callback at the head of its ready queue.
RunCallback ==
    \/ StartConsumer
    \/ TaskStep
    \/ ConsumerStep
    \/ MainConnected
    \/ MainCleanup
    \/ MainAfterGather
    \/ MainAfterFrameTask
    \/ MainFinish

\* Task lifecycle: every room event and every way a stream ends; no frames.
LiveNext ==
    \/ RunLivekitStart
    \/ ConnectDone
    \/ \E sid \in Sids : Subscribe(sid)
    \/ \E sid \in Sids : Unsubscribe(sid)
    \/ Disconnected
    \/ \E id \in TaskIds, k \in {"error", "end"} : StreamEvent(id, k)
    \/ RunCallback
    \/ DisconnectDone
    \/ RunnerCancelAll
    \/ LoopClosed

\* Frame flow: the tracks stay subscribed and their streams deliver frames
\* while the analysis loop runs and the clock advances, up to and through
\* the shutdown.
FramesNext ==
    \/ ClockTick
    \/ RunLivekitStart
    \/ ConnectDone
    \/ \E sid \in Sids : Subscribe(sid)
    \/ \E id \in TaskIds, k \in {"frame", "badframe"} : StreamEvent(id, k)
    \/ RunCallback
    \/ AnalysisDone
    \/ \E o \in Outcomes : PublishDone(o)
    \/ Disconnected
    \/ DisconnectDone

\* Stream failures: the tracks stay subscribed and their streams deliver
\* frames, frames that cannot be converted, and errors, while the analysis
\* loop runs, up to and through the shutdown.
ErrorsNext ==
    \/ RunLivekitStart
    \/ ConnectDone
    \/ \E sid \in Sids : Subscribe(sid)
    \/ \E id \in TaskIds, k \in {"frame", "badframe", "error"} :
           StreamEvent(id, k)
    \/ RunCallback
    \/ AnalysisDone
    \/ \E o \in {"ok"} : PublishDone(o)
    \/ Disconnected
    \/ DisconnectDone

\* run(), lines 102-113, up to the first await of the mode it enters.
ModeNext ==
    \/ RunLivekitStart
    \/ ConnectDone
    \/ RunCameraStart
    \/ RunCameraUnopened

\* run(), lines 102-113: the live subscription or the local camera.
RunNext ==
    \/ FramesNext
    \/ CameraNext

StoreNext ==
    \/ Tick
    \/ \E t \in Threads, r \in Rooms, c \in StoreCommands : RecordBegin(t, r, c)
    \/ \E t \in Threads : RecordLock(t)
    \/ \E t \in Threads : RecordStore(t)
    \/ \E t \in Threads, r \in Rooms : GetBegin(t, r)
    \/ \E t \in Threads : GetLocked(t)
    \/ \E t \in Threads, r \in Rooms : GetHistory(t, r)

\* Destinations set, read and cleared between the decision calls of one
\* caller, while the clock advances.
Setters == {"t1"}
Recorders == {"t1"}

DestNext ==
    \/ Tick
    \/ \E t \in Recorders, r \in Rooms, c \in StoreCommands :
           RecordBegin(t, r, c)
    \/ \E t \in Recorders : RecordLock(t)
    \/ \E t \in Recorders : RecordStore(t)
    \/ \E t \in Recorders, r \in Rooms : GetBegin(t, r)
    \/ \E t \in Recorders : GetLocked(t)
    \/ \E t \in Setters, r \in Rooms, p \in Points :
           SetDestinationBegin(t, r, p)
    \/ \E t \in Setters : SetDestinationLocked(t)
    \/ \E t \in Setters, r \in Rooms : GetDestination(t, r)
    \/ \E t \in Setters, r \in Rooms : ClearDestination(t, r)

\* Records by every thread while get_history results are kept.
SnapshotNext ==
    \/ Tick
    \/ \E t \in Threads, r \in Rooms, c \in StoreCommands : RecordBegin(t, r, c)
    \/ \E t \in Threads : RecordLock(t)
    \/ \E t \in Threads : RecordStore(t)
    \/ \E t \in Threads, r \in Rooms : KeepHistory(t, r)

StoreSpecInit == StoreInit /\ SupervisorInit /\ DecideIdle /\ ApiIdle

SpecStore == StoreSpecInit /\ [][StoreNext]_vars

ConstructSpecInit ==
    ConstructInit /\ SupervisorInit /\ DecideIdle /\ ApiIdle

SpecConstruct == ConstructSpecInit /\ [][ConstructNext]_vars

\* The smallest store the constructor builds: TTL and history limit clamped
\* to 1.
DestSpecInit ==
    StoreInitWith(0, 0) /\ SupervisorInit /\ DecideIdle /\ ApiIdle

SpecSnapshot == StoreSpecInit /\ [][SnapshotNext]_vars

SpecDest == DestSpecInit /\ [][DestNext]_vars

\* The store as get_navigation_store builds it from the default Settings
\* (config.py lines 21-22).
DefaultTtl == 5
DefaultLimit == 50

LiveInit ==
    /\ StoreInitWith(DefaultTtl, DefaultLimit)
    /\ SupervisorInit
    /\ DecideIdle
    /\ ApiIdle

ApiSpecInit ==
    /\ StoreInitWith(DefaultTtl, DefaultLimit)
    /\ SupervisorInit
    /\ DecideIdle
    /\ ApiInit

SpecApi == ApiSpecInit /\ [][ApiNext]_vars

\* run() with a configuration for either mode.
RunSpecInit ==
    /\ StoreInitWith(DefaultTtl, DefaultLimit)
    /\ \E c \in {LiveConfig, CameraConfig} : SupervisorInitWith(c)
    /\ DecideIdle
    /\ ApiIdle

\* run() with any configuration.
ModeSpecInit ==
    /\ StoreInitWith(DefaultTtl, DefaultLimit)
    /\ \E c \in Configs : SupervisorInitWith(c)
    /\ DecideIdle
    /\ ApiIdle

SpecLive == LiveInit /\ [][LiveNext]_vars

SpecFrames == LiveInit /\ [][FramesNext]_vars

SpecRun == RunSpecInit /\ [][RunNext]_vars

SpecMode == ModeSpecInit /\ [][ModeNext]_vars

SpecErrors == LiveInit /\ [][ErrorsNext]_vars

DecideSpecInit ==
    /\ StoreInitWith(DefaultTtl, DefaultLimit)
    /\ SupervisorInit
    /\ DecideInit
    /\ ApiIdle

SpecDecide == DecideSpecInit /\ [][DecideNext]_vars

----------------------------------------------------------------------------
(* Properties of the store *)

\* The entries recorded for one room, in commit order.
RoomLog(r) == SelectSeq(log, LAMBDA e : e.room = r)

\* The last n elements of a sequence.
LastN(q, n) == SubSeq(q, Len(q) - n + 1, Len(q))

\* The most recently recorded entry of a room, NoEntry when there is none.
LastRecorded(r) ==
    IF RoomLog(r) = <<>> THEN NoEntry ELSE RoomLog(r)[Len(RoomLog(r))]

\* C1, first half: an occupied latest slot holds the entry with the highest
\* sequence number ever recorded for its room.
LatestIsHighest ==
    \A r \in Rooms :
        decisions[r] # NoEntry =>
            /\ decisions[r] \in {RoomLog(r)[i] : i \in 1..Len(RoomLog(r))}
            /\ \A i \in 1..Len(RoomLog(r)) :
                   RoomLog(r)[i].sequence <= decisions[r].sequence

\* C1, second half: a slot goes from occupied to empty only in the critical
\* section of a get_latest_decision on that room whose clock reading is past
\* the entry's expires_at.
EmptiedOnlyByExpiry ==
    \A r \in Rooms :
        (decisions[r] # NoEntry /\ decisions'[r] = NoEntry) =>
            \E t \in Threads :
                /\ tl[t].pc = "get" /\ tl[t].room = r /\ tl'[t].pc = "idle"
                /\ decisions[r].expires_at < tl[t].now

\* C1: under any interleaving of record_decision and get_latest_decision an
\* occupied latest slot holds the highest sequence number ever recorded for
\* the room, and the slot is emptied only by expiry.
C1_LatestHoldsHighestSequence ==
    []LatestIsHighest /\ [][EmptiedOnlyByExpiry]_vars

\* C1 witness: a second record for a room has superseded the first in the slot.
C1_Witness ==
    \E r \in Rooms :
        /\ Len(RoomLog(r)) = 2
        /\ decisions[r] = RoomLog(r)[2]

\* C2 (as claimed): a get_latest_decision that runs within one clock reading
\* returns the room's last recorded entry when no time has elapsed since it
\* was recorded, and returns absent once the elapsed time is >= TTL, exactly
\* TTL included; later calls stay absent until a new record (the clock never
\* runs backwards, so they fall under the same condition).
C2_AbsentFromExactlyTtl ==
    (ret.op = "get" /\ ret.now = now /\ LastRecorded(ret.room) # NoEntry) =>
        LET e == LastRecorded(ret.room)
            elapsed == ret.now - e.created_at
        IN  /\ elapsed = 0 => ret.entry = e
            /\ elapsed >= ttl => ret.entry = NoEntry

\* What the code does instead: absent only once the elapsed time exceeds TTL;
\* at exactly TTL the entry is still returned.
StrictExpiry ==
    (ret.op = "get" /\ ret.now = now /\ LastRecorded(ret.room) # NoEntry) =>
        LET e == LastRecorded(ret.room)
            elapsed == ret.now - e.created_at
        IN  /\ (0 <= elapsed /\ elapsed <= ttl) => ret.entry = e
            /\ elapsed > ttl => ret.entry = NoEntry

\* C3: every room's history holds at most history_limit entries, namely the
\* most recent min(k, history_limit) of the k entries recorded for the room,
\* in insertion order; get_history hands back such a ring.
C3_HistoryIsMostRecentN ==
    /\ \A r \in Rooms :
          /\ Len(history[r]) <= history_limit
          /\ history[r] =
                LastN(RoomLog(r), Min(Len(RoomLog(r)), history_limit))
    /\ ret.op = "history" => Len(ret.snapshot) <= history_limit

\* C3 witness: with history_limit = 1, two records for a room have left exactly
\* the second one, and get_history has returned it.
C3_Witness ==
    /\ history_limit = 1
    /\ ret.op = "history"
    /\ Len(RoomLog(ret.room)) = 2
    /\ ret.snapshot = <<RoomLog(ret.room)[2]>>
    /\ history[ret.room] = ret.snapshot

\* C4: the sequence numbers of the recorded entries are strictly increasing in
\* the order the records took effect, across all rooms, so no two entries
\* share a number, whatever the interleaving of the calling threads.
C4_SequenceStrictlyIncreasing ==
    /\ \A i, j \in 1..Len(log) : i < j => log[i].sequence < log[j].sequence
    /\ ret.op = "record" => ret.entry = log[Len(log)]

\* C4 witness: two overlapping record_decision calls on different rooms took
\* effect in the opposite order of their clock readings.
C4_Witness ==
    /\ Len(log) = 2
    /\ log[1].room # log[2].room
    /\ log[2].created_at < log[1].created_at

----------------------------------------------------------------------------
(* Properties of the track lifecycle *)

\* The consumption tasks of a source that are running: created, not finished,
\* and not asked to cancel.
Running(sid) ==
    {i \in TaskIds : tasks[i].sid = sid /\ tasks[i].st # "done"
                     /\ ~tasks[i].cancel}

\* C7 (as claimed): under any interleaving of subscribe, unsubscribe, task
\* completion or failure and disconnect, at most one consumption task per
\* source identifier is running.
C7_AtMostOneTaskPerSource ==
    \A sid \in Sids : Cardinality(Running(sid)) <= 1

\* C8 (as claimed): once the unsubscribe notification of a source has been
\* handled, no consumption task of that source is running and the source is
\* not registered, whether or not the deferred start had run by then.
C8_UnsubscribedMeansCancelled ==
    \A sid \in Sids :
        (sid \notin subscribed /\ Delivering) =>
            /\ track_tasks[sid] = NoTask
            /\ Running(sid) = {}

\* C9 (as claimed), the state when _run_livekit has returned: no consumption
\* task and no analysis loop is still running, the registry is empty and the
\* queue is released.
C9_NothingLeftAfterShutdown ==
    main_pc = "done" =>
        /\ \A i \in TaskIds : tasks[i].st = "done"
        /\ cons.pc = "done"
        /\ Registered = {}
        /\ ~queue_set

----------------------------------------------------------------------------
(* Properties of the frame flow *)

\* The analysis loop holds a frame: it is analysing or publishing.
Busy == cons.pc \in {"analyze", "publish"}

\* C5: whatever the interleaving of the per-track producers and the analysis
\* loop, the frame queue never holds more than one pending frame, and no
\* call of _enqueue_frame has had to wait on a full queue.
C5_QueueBoundedNeverBlocks ==
    /\ Len(frame_queue) <= 1
    /\ blocked = {}

\* A frame from a second producer has replaced a pending one while the loop
\* was busy with an earlier frame.
C5_Witness ==
    /\ Busy
    /\ Len(tasks) >= 2
    /\ frame_queue # <<>>
    /\ Head(frame_queue) >= cons.frame + 2

\* C6: _ready_to_publish answers True at most once per debounce interval: a
\* call within the interval after a True answers False, a call once the
\* interval has elapsed answers True again, and self._last_publish is the
\* clock of the most recent True answer (0.0 before the first), so a False
\* answer leaves it unchanged.
C6_TrueOncePerInterval ==
    LET lastTrue == IF gate.res = "true" THEN <<gate.at>> ELSE gate.earlier
    IN  /\ gate.res # "none" =>
              (gate.res = "true" <=>
                   (gate.earlier = <<>>
                    \/ gate.at - gate.earlier[1] >= Debounce))
        /\ last_publish = IF lastTrue = <<>> THEN 0 ELSE lastTrue[1]

\* True, then False within the interval, then True again after it.
C6_Witness ==
    /\ gate.res = "true"
    /\ gate.prev = "false"
    /\ gate.earlier # <<>>
    /\ gate.at - gate.earlier[1] >= Debounce

----------------------------------------------------------------------------
(* Properties of _decide *)

\* A box that covers no pixel: zero width or zero height after int().
EmptyBox(b) == IntOf(b.x1) <= IntOf(b.x0) \/ IntOf(b.y1) <= IntOf(b.y0)

\* No detections, all-empty masks, or empty boxes.
NothingDetected ==
    IF detections.has_mask
    THEN \A i \in 1..Len(detections.mask) : detections.mask[i].on = {}
    ELSE \A i \in 1..Len(detections.xyxy) : EmptyBox(detections.xyxy[i])

\* C10: for every detection set and frame size whose occupancy map has no
\* occupied pixel (no detections, all-empty masks, or empty boxes), _decide
\* returns MOVE_FORWARD.
C10_EmptyMapMovesForward ==
    decision # None =>
        /\ Occupancy(detections, shape[1], shape[2]) = {}
               => decision = "MOVE_FORWARD"
        /\ NothingDetected => decision = "MOVE_FORWARD"

\* Two empty boxes on a frame of three columns have been decided.
C10_Witness ==
    /\ decision = "MOVE_FORWARD"
    /\ ~detections.has_mask
    /\ Len(detections.xyxy) = 2
    /\ NothingDetected
    /\ shape[2] >= 3

\* The band means of the occupancy map of the decided input, taken over the
\* columns [0, w div 3), [w div 3, 2w div 3) and [2w div 3, w).
Columns(lo, hi) == {x \in 0..(shape[2] - 1) : lo <= x /\ x < hi}
MapMean(cols) ==
    BandMean(Occupancy(detections, shape[1], shape[2]), shape[1], cols)
LeftMean == MapMean(Columns(0, shape[2] \div 3))
CenterMean == MapMean(Columns(shape[2] \div 3, (2 * shape[2]) \div 3))
RightMean == MapMean(Columns((2 * shape[2]) \div 3, shape[2]))

\* Two means are numbers and equal.
SameMean(a, b) == a[2] > 0 /\ b[2] > 0 /\ a[1] * b[2] = b[1] * a[2]

\* A mean is above 0.4, above 0.48.
AboveThreshold(m) == m[2] > 0 /\ 5 * m[1] > 2 * m[2]
AboveSideThreshold(m) == m[2] > 0 /\ 25 * m[1] > 12 * m[2]

\* C11: whenever the centre-band mean is greater than obstacle_threshold and
\* the left and right band means are equal, _decide returns STOP.
C11_BlockedCentreEqualSidesStops ==
    (decision # None /\ AboveThreshold(CenterMean)
                     /\ SameMean(LeftMean, RightMean))
        => decision = "STOP"

\* The centre is blocked and both sides carry the same nonzero occupancy.
C11_Witness ==
    /\ decision = "STOP"
    /\ AboveThreshold(CenterMean)
    /\ SameMean(LeftMean, RightMean)
    /\ LeftMean[1] > 0

\* C12: with the centre not above obstacle_threshold, a left-band mean above
\* obstacle_threshold * 1.2 gives TURN_RIGHT; with the centre and the left not
\* above their thresholds, a right-band mean above obstacle_threshold * 1.2
\* gives TURN_LEFT.
C12_SideObstacleTurnsAway ==
    decision # None =>
        /\ (~AboveThreshold(CenterMean) /\ AboveSideThreshold(LeftMean))
               => decision = "TURN_RIGHT"
        /\ (~AboveThreshold(CenterMean) /\ ~AboveSideThreshold(LeftMean)
                /\ AboveSideThreshold(RightMean))
               => decision = "TURN_LEFT"

\* One masked object fills only the left third.
C12_Witness ==
    /\ decision = "TURN_RIGHT"
    /\ detections.has_mask
    /\ Len(detections.mask) = 1
    /\ shape[2] >= 3
    /\ LeftMean[1] = LeftMean[2]
    /\ CenterMean[1] = 0
    /\ RightMean[1] = 0

----------------------------------------------------------------------------
(* Properties of the destinations *)

\* The last committed change of a room's destination was a clear.
Cleared(r) == dest_written[r].last \in {"clear", "reclear"}

\* C13: after set_destination then clear_destination, get_destination returns
\* absent; a clear on a room with no destination leaves every room as it
\* was (a room whose last change was a set still has its destination), and
\* a second clear leaves the room absent like the first.
C13_ClearRemovesOnlyItsRoom ==
    /\ \A r \in Rooms : Cleared(r) => destinations[r] = NoDest
    /\ \A r \in Rooms : dest_written[r].last = "set" => destinations[r] # NoDest
    /\ (ret.op = "get_destination" /\ Cleared(ret.room)) => ret.dest = NoDest

\* get_destination answered absent after a set and a clear of its room,
\* while the other room, cleared when it was already empty and then set,
\* keeps its destination.
C13_Witness ==
    /\ ret.op = "get_destination"
    /\ ret.dest = NoDest
    /\ dest_written[ret.room].last = "clear"
    /\ \E r \in Rooms \ {ret.room} : destinations[r] # NoDest

\* C14: every room's destination is the entry of the most recent
\* set_destination not followed by a clear_destination, and that is what
\* get_destination returns, whatever time has passed and whatever decisions
\* were recorded, read or evicted meanwhile; a destination is absent only
\* if none was set or the last change was a clear.
C14_DestinationLastWriteNoExpiry ==
    /\ \A r \in Rooms : destinations[r] = dest_written[r].entry
    /\ \A r \in Rooms : destinations[r] = NoDest => dest_written[r].last # "set"
    /\ ret.op = "get_destination" => ret.dest = dest_written[ret.room].entry

\* A destination set over an earlier one is returned at a later time, after
\* the room's latest decision was evicted.
C14_Witness ==
    /\ ret.op = "get_destination"
    /\ ret.dest # NoDest
    /\ ret.dest.point = "p2"
    /\ ret.dest.updated_at > 0
    /\ ret.now > ret.dest.updated_at
    /\ RoomLog(ret.room) # <<>>
    /\ decisions[ret.room] = NoEntry

----------------------------------------------------------------------------
(* Properties of the constructor *)

\* C17: the constructor never fails; a ttl_seconds <= 0 gives an effective TTL
\* of 1 and a history_limit <= 0 an effective limit of 1, positive values are
\* kept, so both are always >= 1 once the store exists.
C17_ConstructorClampsToOne ==
    IF args.pending THEN ENABLED Construct
    ELSE /\ ttl = (IF args.ttl_seconds <= 0 THEN 1 ELSE args.ttl_seconds)
         /\ history_limit =
                (IF args.history_limit <= 0 THEN 1 ELSE args.history_limit)
         /\ ttl >= 1
         /\ history_limit >= 1

\* A store built from a negative TTL and a zero history limit.
C17_Witness ==
    /\ ~args.pending
    /\ args.ttl_seconds < 0
    /\ args.history_limit = 0
    /\ ttl = 1
    /\ history_limit = 1

----------------------------------------------------------------------------
(* Properties of the history *)

\* The step changes the history of room r only by appending the entry just
\* recorded for r, dropping the oldest entry if the ring was full.
OnlyAppendOrCapacity(r) ==
    history'[r] # history[r] =>
        /\ Len(log') = Len(log) + 1
        /\ LET e == log'[Len(log')]
           IN  /\ e.room = r
               /\ history'[r] = IF Len(history[r]) < history_limit
                                THEN Append(history[r], e)
                                ELSE Append(Tail(history[r]), e)

\* A step that empties a latest slot without recording (the TTL eviction of
\* get_latest_decision) changes nothing else in the store.
EvictionTouchesOnlyItsSlot ==
    (log' = log /\ decisions' # decisions) =>
        /\ history' = history
        /\ destinations' = destinations
        /\ sequence' = sequence
        /\ \E r \in Rooms :
              /\ decisions'[r] = NoEntry
              /\ \A q \in Rooms \ {r} : decisions'[q] = decisions[q]

\* C15: history is independent of the TTL: entries leave a room's history
\* only by capacity eviction when a new entry is recorded, and the eviction of
\* an expired latest entry by get_latest_decision leaves every history and
\* every other room's state unchanged.
C15_HistoryIndependentOfTtl ==
    [][(\A r \in Rooms : OnlyAppendOrCapacity(r))
       /\ EvictionTouchesOnlyItsSlot]_vars

\* get_latest_decision has just evicted the expired latest entry of a room
\* whose history still holds that entry.
C15_Witness ==
    /\ ret.op = "get"
    /\ ret.entry = NoEntry
    /\ decisions[ret.room] = NoEntry
    /\ history[ret.room] # <<>>
    /\ history[ret.room][Len(history[ret.room])].expires_at < ret.now
    /\ \E q \in Rooms \ {ret.room} : history[q] # <<>>

\* The entries a value handed out by get_history shows now.
Contents(v) == IF v.live THEN history[v.room] ELSE v.items

\* Entries in ascending sequence order.
OldestFirst(h) ==
    \A i \in 1..Len(h), j \in 1..Len(h) :
        i < j => h[i].sequence < h[j].sequence

\* C16: get_history changes nothing in the store, returns the room's entries
\* oldest first, and what it returned keeps showing the entries of the time
\* of the call whatever is recorded later.
C16_HistorySnapshotIsStable ==
    /\ [](Contents(held.value) = held.seen /\ OldestFirst(held.seen))
    /\ [][held' # held =>
             /\ held'.seen = history[held'.value.room]
             /\ UNCHANGED <<sequence, decisions, history, destinations>>]_vars

\* A snapshot of one entry, taken before the room's ring grew to two.
C16_Witness ==
    /\ held.calls = 1
    /\ Len(held.seen) = 1
    /\ Len(history[held.value.room]) = 2

----------------------------------------------------------------------------
(* Properties of publishing and of repeated evaluation *)

\* A publish is being attempted, in the live loop or in the camera loop.
Publishing == cons.pc = "publish" \/ main_pc = "cam_publish"

\* The step leaves a publish attempt: the loop goes on to the next frame (or
\* is cancelled), it does not post again, and the gate is left as it was.
AfterPublishNextFrame ==
    /\ (cons.pc = "publish" /\ cons'.pc # "publish")
           => cons'.pc \in {"get", "analyze", "done"}
    /\ (main_pc = "cam_publish" /\ main_pc' # "cam_publish")
           => main_pc' = "cam_read"
    /\ (Publishing /\ (posted' # posted \/ ~Publishing'))
           => (last_publish' = last_publish /\ gate' = gate)

\* C18: a failed publish (network error, timeout, non-2xx) never ends the
\* loop in either mode, is not retried, and leaves the debounce gate alone:
\* every publish attempt, also the one after a failure, follows a True answer
\* of the gate given no sooner than the debounce interval after the previous
\* True answer.
C18_FailedPublishIsSkipped ==
    /\ [](cons.pc # "crashed" /\ main_pc # "cam_crashed")
    /\ [](Publishing =>
             /\ gate.res = "true"
             /\ last_publish = gate.at
             /\ gate.earlier # <<>> => gate.at - gate.earlier[1] >= Debounce)
    /\ [][AfterPublishNextFrame]_vars

\* The live loop publishes again, a debounce interval after a publish that
\* timed out.
C18_Witness ==
    /\ cons.pc = "publish"
    /\ posted = "timeout"
    /\ gate.earlier # <<>>

C20_CancelledTaskEndsNormally ==
    \A i \in TaskIds :
        (tasks[i].st = "done" /\ tasks[i].cancel) =>
            /\ tasks[i].how # "cancelled"
            /\ track_tasks[tasks[i].sid] # i

----------------------------------------------------------------------------
(* Properties of the bands *)

\* The frame width of the decided input.
FrameWidth == shape[2]

\* C23 (as claimed): for every frame width W the left and the right band
\* have exactly W div 3 columns each, the remainder columns going to the
\* centre band.
C23_CentreAbsorbsRemainder ==
    decision # None =>
        /\ Cardinality(LeftBand(FrameWidth)) = FrameWidth \div 3
        /\ Cardinality(RightBand(FrameWidth)) = FrameWidth \div 3
        /\ Cardinality(CenterBand(FrameWidth))
               = FrameWidth - 2 * (FrameWidth \div 3)

\* C23 (amended): the three bands are the columns [0, W div 3),
\* [W div 3, 2W div 3) and [2W div 3, W): consecutive, disjoint and covering
\* every column; the left band has W div 3 columns, the centre band
\* 2W div 3 - W div 3 and the right band W - 2W div 3, so the widths are equal
\* when 3 divides W, and otherwise the remainder goes to the right band
\* (W mod 3 = 1) or one column each to the centre and the right band
\* (W mod 3 = 2); the left band never takes a remainder column.
C23_BandsByIntegerDivision ==
    decision # None =>
        LET w == FrameWidth
            l == Cardinality(LeftBand(w))
            c == Cardinality(CenterBand(w))
            r == Cardinality(RightBand(w))
        IN  /\ LeftBand(w) = Columns(0, w \div 3)
            /\ CenterBand(w) = Columns(w \div 3, (2 * w) \div 3)
            /\ RightBand(w) = Columns((2 * w) \div 3, w)
            /\ LeftBand(w) \cup CenterBand(w) \cup RightBand(w) = 0..(w - 1)
            /\ l + c + r = w
            /\ l = w \div 3
            /\ c = ((2 * w) \div 3) - (w \div 3)
            /\ r = w - ((2 * w) \div 3)
            /\ w % 3 = 0 => (l = c /\ c = r)
            /\ w % 3 = 1 => (c = l /\ r = l + 1)
            /\ w % 3 = 2 => (c = l + 1 /\ r = l + 1)

\* A frame of four columns was decided: the right band has two of them.
C23_Witness ==
    /\ decision # None
    /\ FrameWidth = 4
    /\ Cardinality(RightBand(FrameWidth)) = 2
    /\ Cardinality(CenterBand(FrameWidth)) = 1

----------------------------------------------------------------------------
(* Properties of the centre and side rules *)

\* Both means are numbers and the first is strictly smaller.
MeanBelow(a, b) == a[2] > 0 /\ b[2] > 0 /\ a[1] * b[2] < b[1] * a[2]

\* C24: the centre rule takes precedence: whenever the centre-band mean
\* exceeds obstacle_threshold, _decide returns TURN_LEFT if left < right and
\* TURN_RIGHT if right < left, whether or not a side band is above
\* obstacle_threshold * 1.2.
C24_CentreRuleFirst ==
    (decision # None /\ AboveThreshold(CenterMean)) =>
        /\ MeanBelow(LeftMean, RightMean) => decision = "TURN_LEFT"
        /\ MeanBelow(RightMean, LeftMean) => decision = "TURN_RIGHT"

\* The centre is blocked and the left band, although above the side
\* threshold, is the less occupied side: the turn is to the left.
C24_Witness ==
    /\ decision = "TURN_LEFT"
    /\ AboveThreshold(CenterMean)
    /\ AboveSideThreshold(LeftMean)
    /\ MeanBelow(LeftMean, RightMean)

\* C30: _decide never returns MOVE_FORWARD when the centre-band mean exceeds
\* obstacle_threshold, nor when the left or the right band mean exceeds
\* obstacle_threshold * 1.2.
C30_NoForwardIntoObstacle ==
    decision = "MOVE_FORWARD" =>
        /\ ~AboveThreshold(CenterMean)
        /\ ~AboveSideThreshold(LeftMean)
        /\ ~AboveSideThreshold(RightMean)

\* MOVE_FORWARD on a map that is occupied in part: a masked object covers a
\* quarter of the right band, below the side threshold.
C30_Witness ==
    /\ decision = "MOVE_FORWARD"
    /\ detections.has_mask
    /\ RightMean[1] > 0
    /\ CenterMean[2] > 0
    /\ LeftMean[2] > 0

\* C31 (as claimed): when the centre band is not above obstacle_threshold,
\* _decide never commands a turn toward a side band that is itself above
\* obstacle_threshold * 1.2: TURN_RIGHT only if the right band is not above
\* that side threshold, TURN_LEFT only if the left band is not above it.
C31_NoTurnTowardBlockedSide ==
    (decision # None /\ ~AboveThreshold(CenterMean)) =>
        /\ decision = "TURN_RIGHT" => ~AboveSideThreshold(RightMean)
        /\ decision = "TURN_LEFT" => ~AboveSideThreshold(LeftMean)

----------------------------------------------------------------------------
(* Properties of the entries' timestamps *)

\* C28 (as claimed): with concurrent record_decision callers the timestamps
\* agree with the sequence order: an entry with a higher sequence number
\* never has an earlier created_at or expires_at than one with a lower
\* number, so an occupied latest slot never expires before an entry of its
\* room that it superseded.
C28_TimestampsFollowSequence ==
    /\ \A i \in 1..Len(log), j \in 1..Len(log) :
           log[i].sequence < log[j].sequence =>
               /\ log[i].created_at <= log[j].created_at
               /\ log[i].expires_at <= log[j].expires_at
    /\ \A r \in Rooms :
           decisions[r] # NoEntry =>
               \A i \in 1..Len(RoomLog(r)) :
                   RoomLog(r)[i].expires_at <= decisions[r].expires_at

\* The entries the store holds: the latest slots and the histories.
Stored ==
    ({decisions[r] : r \in Rooms} \ {NoEntry})
        \cup UNION {{history[r][i] : i \in 1..Len(history[r])} : r \in Rooms}

\* C29: in every reachable state an occupied latest slot holds the last
\* (newest) element of its room's history, every room's history is strictly
\* increasing in sequence, and every entry has
\* expires_at = created_at + the store's TTL.
C29_LatestIsNewestOfHistory ==
    /\ \A r \in Rooms :
           decisions[r] # NoEntry =>
               /\ history[r] # <<>>
               /\ history[r][Len(history[r])] = decisions[r]
    /\ \A r \in Rooms :
           \A i \in 1..Len(history[r]) :
               /\ history[r][i].room = r
               /\ i > 1 => history[r][i - 1].sequence < history[r][i].sequence
    /\ \A e \in Stored : e.expires_at = e.created_at + ttl

\* A store with TTL 2 and room for two entries holds two entries of a room,
\* stamped with different times, the second one in the latest slot.
C29_Witness ==
    /\ ttl = 2
    /\ \E r \in Rooms :
           /\ Len(history[r]) = 2
           /\ decisions[r] = history[r][2]
           /\ history[r][1].created_at # history[r][2].created_at

----------------------------------------------------------------------------
(* Properties of the registry *)

\* Every running consumption task is the one registered for its source.
RunningIsRegistered ==
    \A sid \in Sids : \A i \in Running(sid) : track_tasks[sid] = i

\* A step in which a task ends changes no registration but that task's own.
EndRemovesOnlyOwn ==
    \A i \in TaskIds :
        (tasks[i].st # "done" /\ tasks'[i].st = "done") =>
            \A sid \in Sids :
                track_tasks'[sid] # track_tasks[sid] => track_tasks[sid] = i

\* C27 (as claimed): the registry and the running tasks stay in step: every
\* running consumption task is registered under its own source identifier,
\* and a task that ends (cancelled, failed or finished) removes only its own
\* registration, never that of a newer task started for the same identifier
\* after an unsubscribe and re-subscribe.
C27_RegistryFollowsTasks ==
    /\ []RunningIsRegistered
    /\ [][EndRemovesOnlyOwn]_vars

----------------------------------------------------------------------------
(* Properties of the frame queue's contents *)

\* The step is a call _enqueue_frame(f) with the queue in place: the queue
\* afterwards holds f and nothing else.
EnqueueLeavesOnlyNewest ==
    \A i \in TaskIds :
        (/\ tasks[i].st = "woken" /\ tasks[i].wake = "frame"
         /\ tasks'[i].st = "waiting" /\ queue_set)
            => frame_queue' = <<tasks[i].frame>>

\* The step is the analysis loop taking a frame: it takes the one pending
\* frame and leaves the queue empty.
ConsumerTakesPending ==
    (cons'.pc = "analyze" /\ ~cons'.sched
                          /\ (cons.pc # "analyze" \/ cons.sched)) =>
        /\ frame_queue # <<>>
        /\ cons'.frame = frame_queue[Len(frame_queue)]
        /\ frame_queue' = <<>>

\* C22: drop-oldest: whenever _enqueue_frame(f) runs while the queue exists,
\* the queue afterwards holds exactly f, a pending older frame being evicted
\* and never the new one; the queue changes in no other way but by the
\* analysis loop taking its one frame, so the frame taken next is always
\* the most recently enqueued one not yet taken.
C22_DropOldest ==
    [][/\ EnqueueLeavesOnlyNewest
       /\ ConsumerTakesPending
       /\ (frame_queue' # frame_queue /\ frame_queue' # <<>>) =>
              \E i \in TaskIds : /\ tasks[i].wake = "frame"
                                 /\ tasks'[i].st = "waiting"
                                 /\ frame_queue' = <<tasks[i].frame>>]_vars

\* The loop analyses the first frame; the second was evicted unseen by the
\* third, which is pending.
C22_Witness ==
    /\ cons.pc = "analyze"
    /\ cons.frame = 1
    /\ produced = 3
    /\ frame_queue = <<3>>

----------------------------------------------------------------------------
(* Properties of stream failures *)

\* The step is a task receiving an error from its stream: the task ends with
\* the error handled, its source is unregistered, and nothing else changes:
\* not the other tasks, not their registrations, not the analysis loop, not
\* the queue, not the main coroutine.
ErrorEndsOnlyItsTask ==
    \A i \in TaskIds :
        (/\ tasks[i].st = "woken" /\ tasks[i].wake = "error"
         /\ ~tasks'[i].cancel /\ tasks'[i] # tasks[i])
            => /\ tasks'[i].st = "done"
               /\ tasks'[i].how = "error"
               /\ track_tasks'[tasks[i].sid] = NoTask
               /\ \A s \in Sids \ {tasks[i].sid} :
                      track_tasks'[s] = track_tasks[s]
               /\ \A j \in TaskIds \ {i} : tasks'[j] = tasks[j]
               /\ cons' = cons
               /\ frame_queue' = frame_queue
               /\ main_pc' = main_pc

\* The step is a task receiving a frame that cannot be converted: the task
\* goes back to waiting for the next event; registry and queue are untouched.
BadFrameIsSkipped ==
    \A i \in TaskIds :
        (/\ tasks[i].st = "woken" /\ tasks[i].wake = "badframe"
         /\ ~tasks'[i].cancel /\ tasks'[i] # tasks[i])
            => /\ tasks'[i].st = "waiting"
               /\ track_tasks' = track_tasks
               /\ frame_queue' = frame_queue
               /\ cons' = cons

\* C21: when one source's consumption task hits an unexpected error, that
\* task ends and its identifier is removed from the registry, while every
\* other source's task keeps running and registered and the analysis loop
\* keeps consuming frames; a frame that cannot be converted is skipped
\* without ending the task.
C21_ErrorEndsOneTaskOnly ==
    /\ [](cons.pc # "crashed")
    /\ [][ErrorEndsOnlyItsTask /\ BadFrameIsSkipped]_vars

\* One task has ended on an error and is unregistered; the other source's
\* task is registered and waiting for its next event, after a frame that
\* could not be converted; the analysis loop is analysing the third frame.
C21_Witness ==
    /\ \E i \in TaskIds, j \in TaskIds :
           /\ tasks[i].how = "error"
           /\ track_tasks[tasks[i].sid] = NoTask
           /\ tasks[j].st = "waiting"
           /\ track_tasks[tasks[j].sid] = j
    /\ cons.pc = "analyze"
    /\ cons.frame = 3

----------------------------------------------------------------------------
(* Properties of the decision endpoint *)

\* A token is configured.
TokenConfigured == vision_api_token \notin {None, ""}

\* The step answers a submission whose Authorization header is not the
\* configured token's.
Mismatching ==
    /\ response' # response
    /\ TokenConfigured
    /\ response'.authorization # "Bearer " \o vision_api_token

\* C25: authorization is enforced before record_decision: a submission whose
\* authorization does not match the configured vision token is answered
\* with an error and never reaches the store: it leaves the sequence
\* counter, the latest slots and the histories unchanged, and every call of
\* record_decision belongs to a submission that passed _authorize.
C25_AuthorizationBeforeRecord ==
    /\ [](TokenConfigured =>
              response.passed \subseteq {"Bearer " \o vision_api_token})
    /\ [](sequence + Cardinality(Entering) = response.calls)
    /\ [][Mismatching =>
              /\ response'.status = Unauthorized
              /\ UNCHANGED <<sequence, decisions, history, log, tl, lock,
                             ret>>]_vars

\* With the token configured, one submission was recorded and a later one
\* with another token was answered 401.
C25_Witness ==
    /\ vision_api_token = "tok"
    /\ response.status = Unauthorized
    /\ response.authorization = "Bearer other"
    /\ response.passed = {"Bearer tok"}
    /\ Len(log) = 1

----------------------------------------------------------------------------
(* Properties of the mode selection *)

\* The credential is present.
Present(v) == v # None /\ v # ""

\* The mode the configuration calls for.
ModeCalledFor ==
    IF /\ cfg.use_livekit
       /\ Present(cfg.livekit_url)
       /\ Present(cfg.livekit_api_key)
       /\ Present(cfg.livekit_api_secret)
       /\ cfg.rtc
    THEN "livekit" ELSE "camera"

\* C26: the acquisition mode is chosen once in run(): the live subscription
\* is entered exactly when use_livekit is set, the url, the api key and the
\* api secret are present and the transport library is available; in every
\* other combination run() enters the local capture without raising a
\* configuration error; the two modes are never both started.
C26_ModeChosenOnce ==
    /\ Cardinality(started) <= 1
    /\ main_pc = "init" <=> started = {}
    /\ main_pc # "init" => started = {ModeCalledFor}
    /\ main_pc # "config_error"
    /\ ModeCalledFor = "camera" =>
           main_pc \in {"init", "cam_read", "cam_unopened"}
    /\ ModeCalledFor = "livekit" => main_pc \in {"init", "connecting",
                                                  "connected"}

\* The flag is set and the library is there but the api secret is empty:
\* run() has entered the local capture.
C26_Witness ==
    /\ cfg.use_livekit
    /\ cfg.rtc
    /\ cfg.livekit_url = "set"
    /\ cfg.livekit_api_key = "set"
    /\ cfg.livekit_api_secret = ""
    /\ started = {"camera"}
    /\ main_pc = "cam_read"

----------------------------------------------------------------------------
(* Properties of the store's separation by room and by kind *)

\* A step of record_decision or get_latest_decision called for room r: the
\* clock read, the lock taken, or the critical section run.
DecisionStepOn(r) ==
    \E t \in Threads :
        \/ tl[t].pc = "idle" /\ tl'[t].pc \in {"rec", "get"}
                             /\ tl'[t].room = r
        \/ tl[t].pc \in {"rec", "rec_in", "get"} /\ tl[t].room = r
                                                 /\ tl'[t] # tl[t]

\* A step of set_destination, get_destination or clear_destination.
DestinationStep ==
    \/ \E t \in Threads : tl[t].pc = "idle" /\ tl'[t].pc = "setdest"
    \/ \E t \in Threads : tl[t].pc = "setdest" /\ tl'[t] # tl[t]
    \/ /\ tl' = tl
       /\ now' = now
       /\ ret'.op \in {"get_destination", "clear_destination"}

\* C32: room and kind isolation in the store: record_decision and
\* get_latest_decision on room A never change room B's latest slot or
\* history, decision operations never change any destination, and
\* set_destination, clear_destination and get_destination never change the
\* sequence counter, any latest slot or any history.
C32_RoomAndKindIsolation ==
    [][ /\ \A a \in Rooms : DecisionStepOn(a) =>
              /\ \A b \in Rooms \ {a} : /\ decisions'[b] = decisions[b]
                                         /\ history'[b] = history[b]
              /\ destinations' = destinations
        /\ DestinationStep => /\ sequence' = sequence
                              /\ decisions' = decisions
                              /\ history' = history ]_vars

\* record_decision has just stored an entry for R2 while R1 holds a latest
\* entry, a history and a destination.
C32_Witness ==
    /\ ret.op = "record"
    /\ ret.room = "R2"
    /\ decisions["R1"] # NoEntry
    /\ history["R1"] # <<>>
    /\ destinations["R1"] # NoDest
    /\ destinations["R2"] = NoDest
====
